---- MODULE Spec2Model ----
(***************************************************************************)
(* Model of the VideoClassifier editor view: the App component             *)
(* (frontend/src/App.jsx), the Timeline component with its                 *)
(* requestAnimationFrame loop and click handler                            *)
(* (frontend/src/components/Timeline.jsx), the VideoPlayer and the         *)
(* SegmentList.                                                            *)
(*                                                                         *)
(* JavaScript numbers are modelled as exact rationals plus the non-finite  *)
(* values NaN, +Infinity and -Infinity.  A state update and the render     *)
(* and effect pass React performs for it are one step.                     *)
(***************************************************************************)
EXTENDS Integers, Sequences, FiniteSets, TLC

VARIABLES
    segments,    \* App state `segments`
    duration,    \* App state `duration`
    loading,     \* App state `loading`
    error,       \* App state `error` ("none" models null)
    serverPath,  \* App state `serverPath`: TRUE iff the text is non-empty
    inflight,    \* the requests awaiting their response, each "analyze" or
                 \* "upload"
    video,       \* videoRef.current: NoVideo (null) or the <video> element
    mounted,     \* the Timeline (and the App around it) is mounted
    playhead,    \* Timeline state `playhead`
    rafQueue,    \* the browser's list of animation frame callbacks
    raf,         \* variable `raf` of the Timeline's current effect instance
    last,        \* what the last step did (observation only)
    calc         \* the last evaluation of a Timeline render function: its
                 \* arguments and its result

vars == <<segments, duration, loading, error, serverPath, inflight, video,
          mounted, playhead, rafQueue, raf, last, calc>>

----------------------------------------------------------------------------
(* Bounds *)

\* durations of analysis responses are 0..MaxDuration
MaxDuration == 2

\* the media length of the files the user selects
MediaLength == 2

\* measured width of the track once laid out; pointer offsets are
\* -1..TrackWidth + 1
TrackWidth == 2

----------------------------------------------------------------------------
(* JavaScript numbers *)

RECURSIVE GCD(_, _)
GCD(a, b) == IF b = 0 THEN a ELSE GCD(b, a % b)

Abs(n) == IF n < 0 THEN -n ELSE n

\* the finite number n/d (d # 0) in lowest terms with a positive denominator
Num(n, d) ==
    LET g == GCD(Abs(n), Abs(d))
        s == IF d < 0 THEN -1 ELSE 1
    IN  [k |-> "fin", n |-> (s * n) \div g, d |-> (s * d) \div g]

NaN    == [k |-> "nan", n |-> 0, d |-> 1]
PosInf == [k |-> "inf", n |-> 1, d |-> 1]
NegInf == [k |-> "inf", n |-> -1, d |-> 1]
Zero   == Num(0, 1)
One    == Num(1, 1)

IsFinite(a) == a.k = "fin"

Sign(a) == IF a.n > 0 THEN 1 ELSE IF a.n < 0 THEN -1 ELSE 0

\* a / b as JavaScript computes it
Div(a, b) ==
    IF a.k = "nan" \/ b.k = "nan" THEN NaN
    ELSE IF a.k = "inf" /\ b.k = "inf" THEN NaN
    ELSE IF a.k = "inf" THEN (IF Sign(a) * Sign(b) < 0 THEN NegInf ELSE PosInf)
    ELSE IF b.k = "inf" THEN Zero
    ELSE IF b.n = 0 THEN (IF a.n = 0 THEN NaN
                          ELSE IF a.n > 0 THEN PosInf ELSE NegInf)
    ELSE Num(a.n * b.d, a.d * b.n)

\* a * b as JavaScript computes it
Mul(a, b) ==
    IF a.k = "nan" \/ b.k = "nan" THEN NaN
    ELSE IF a.k = "inf" \/ b.k = "inf" THEN
        (IF Sign(a) * Sign(b) = 0 THEN NaN
         ELSE IF Sign(a) * Sign(b) < 0 THEN NegInf ELSE PosInf)
    ELSE Num(a.n * b.n, a.d * b.d)

\* a - b, a + b on finite numbers
Sub(a, b) == Num(a.n * b.d - b.n * a.d, a.d * b.d)
Add(a, b) == Num(a.n * b.d + b.n * a.d, a.d * b.d)

\* a <= b on finite numbers
Leq(a, b) == a.n * b.d <= b.n * a.d
Lt(a, b)  == a.n * b.d < b.n * a.d

\* Math.max / Math.min on finite numbers
Max(a, b) == IF Leq(a, b) THEN b ELSE a
Min(a, b) == IF Leq(a, b) THEN a ELSE b

Clamp(a, lo, hi) == Max(lo, Min(hi, a))

----------------------------------------------------------------------------
(* Timeline: the render functions *)

Hundred == Num(100, 1)

\* the least width of a rendered segment, in percent: 0.2
MinWidth == Num(2, 10)

\* pct without the clamp
PctNoClamp(t, d) ==
    IF d.k = "nan" \/ d.n = 0 \/ Leq(d, Zero) THEN Zero
    ELSE Mul(Div(t, d), Hundred)

\* pct rounding to a whole percent (Math.round)
PctRounded(t, d) ==
    IF d.k = "nan" \/ d.n = 0 \/ Leq(d, Zero) THEN Zero
    ELSE LET p == Max(Zero, Min(Hundred, Mul(Div(t, d), Hundred)))
         IN  Num((2 * p.n + p.d) \div (2 * p.d), 1)

\* pct(t) with the Timeline's `duration` d:
\* if (!duration || duration <= 0) return 0
\* return Math.max(0, Math.min(100, (t / duration) * 100))
Pct(t, d) ==
    IF d.k = "nan" \/ d.n = 0 \/ Leq(d, Zero) THEN Zero
    ELSE Max(Zero, Min(Hundred, Mul(Div(t, d), Hundred)))

\* the time for a fraction p of the track, as handleClick computes it:
\* p * duration
PercentToTime(p, d) == Mul(p, d)

Indigo == "#4f46e5"
Red    == "#ef4444"
Green  == "#10b981"
Slate  == "#94a3b8"

\* a switch without its default arm: undefined for the other modes
ColorForModeNoDefault(mode) ==
    CASE mode = "DIALOGUE_SCENE" -> Indigo
      [] mode = "VISUAL_MONTAGE" -> Red
      [] mode = "VOICEOVER_WITH_PICTURE" -> Green
      [] OTHER -> "undefined"

\* colorForMode(mode)
ColorForMode(mode) ==
    CASE mode = "DIALOGUE_SCENE" -> Indigo
      [] mode = "VISUAL_MONTAGE" -> Red
      [] mode = "VOICEOVER_WITH_PICTURE" -> Green
      [] OTHER -> Slate

\* a segment style without the 0.2 floor on the width
SegmentStyleNoFloor(mode, start, end, d) ==
    [left       |-> Pct(start, d),
     width      |-> Sub(Pct(end, d), Pct(start, d)),
     background |-> ColorForMode(mode)]

\* the style of the <div className="segment"> rendered for a segment:
\* left: pct(s.start), width: Math.max(0.2, pct(s.end) - pct(s.start)),
\* background: colorForMode(s.mode)
SegmentStyle(mode, start, end, d) ==
    [left       |-> Pct(start, d),
     width      |-> Max(MinWidth, Sub(Pct(end, d), Pct(start, d))),
     background |-> ColorForMode(mode)]

\* segments.map(...): one <div> per segment, in sequence order
RenderSegments(segs, d) ==
    [i \in 1..Len(segs) |->
        SegmentStyle(segs[i].mode, Num(segs[i].start, 1),
                     Num(segs[i].end, 1), Num(d, 1))]

----------------------------------------------------------------------------
(* The playback source: the <video> element behind videoRef *)

NoVideo == [present |-> FALSE, currentTime |-> Zero, duration |-> 0, meta |-> FALSE]

\* the element right after `src` is set to a file of media length len
LoadedVideo(len) ==
    [present |-> TRUE, currentTime |-> Zero, duration |-> len, meta |-> FALSE]

\* the element's currentTime setter: a non-finite value throws a TypeError
\* and leaves the time alone, a finite one seeks within [0, media length]
SetCurrentTime(v, t) ==
    IF IsFinite(t)
    THEN [v EXCEPT !.currentTime = Clamp(t, Zero, Num(v.duration, 1))]
    ELSE v

----------------------------------------------------------------------------
(* Segments delivered by the analysis backend *)

Seg(m, s, e) == [mode |-> m, start |-> s, end |-> e]

SegmentLists ==
    { <<>>,
      << Seg("DIALOGUE_SCENE", 0, 1), Seg("VISUAL_MONTAGE", 1, 2) >>,
      << Seg("VOICEOVER_WITH_PICTURE", 1, 3), Seg("OTHER", 0, 1) >> }

----------------------------------------------------------------------------
(* What a step did *)

NoSeek == [k |-> "none", n |-> 0, d |-> 1]

NoResp == [segs |-> <<>>, d |-> 0]

\* op: the operation ("frame", "click", "rowclick", "start", "success",
\* "failure", "metadata", or "other" for the rest); x, w: a click's offset
\* and track width; row: the row clicked; resp: the data of a successful
\* response; torn: a render showed the Timeline the response's segments
\* without its duration; seek: the argument onSeek was called with
\* (NoSeek: not called);
\* writes: assignments made to the source's current time; threw: an
\* exception escaped the handler; ran: frame callbacks run; pubs:
\* setPlayhead calls; stale: frame callbacks run whose closure held a
\* duration other than the App's; down: the frame lowered the playhead
Did(op) ==
    [op |-> op, x |-> 0, w |-> 0, row |-> 0, resp |-> NoResp,
     torn |-> FALSE, seek |-> NoSeek, writes |-> 0,
     threw |-> FALSE, ran |-> 0, pubs |-> 0, stale |-> 0, down |-> FALSE]

\* no render function evaluated yet
NoCalc == [op |-> "none"]

----------------------------------------------------------------------------
(* Timeline: the requestAnimationFrame loop *)

Ids(q) == { q[i].id : i \in 1..Len(q) }

\* requestAnimationFrame returns a handle no registered callback has
NewHandle(used) == CHOOSE h \in 1..(Cardinality(used) + 1) : h \notin used

\* cancelAnimationFrame(h)
CancelAnimationFrame(q, h) == SelectSeq(q, LAMBDA c : c.id # h)

\* a cleanup that cancels nothing
EffectCleanupNoCancel(st) == st

\* the effect's cleanup: () => cancelAnimationFrame(raf)
EffectCleanup(st) == [st EXCEPT !.q = CancelAnimationFrame(st.q, st.raf)]

\* the effect's body with `duration` d in its closure:
\* raf = requestAnimationFrame(tick)
EffectRun(st, d) ==
    LET h == NewHandle(Ids(st.q))
    IN  [st EXCEPT !.q = Append(st.q, [id |-> h, dur |-> d]), !.raf = h]

\* an effect whose dependencies leave `duration` out: it never re-runs
TimelineRenderNoDurationDep(st, oldD, newD) == st

\* a render of the Timeline with duration newD after one with oldD: the
\* effect's dependencies are [videoRef, duration] and videoRef is the
\* same ref object for the App's life
TimelineRender(st, oldD, newD) ==
    IF newD # oldD THEN EffectRun(EffectCleanup(st), newD) ELSE st

\* a tick that samples but does not register itself again
TickNoReschedule(cb, st, pendingIds) ==
    LET sample == video.present /\ cb.dur > 0
    IN  [q        |-> st.q,
         raf      |-> st.raf,
         playhead |-> IF sample
                      THEN Div(video.currentTime, Num(cb.dur, 1))
                      ELSE st.playhead,
         ran      |-> st.ran + 1,
         pubs     |-> st.pubs + (IF sample THEN 1 ELSE 0),
         stale    |-> st.stale + (IF mounted /\ cb.dur # duration THEN 1 ELSE 0)]

\* a tick that never lets the playhead move backwards
TickMonotone(cb, st, pendingIds) ==
    LET sample == video.present /\ cb.dur > 0
        h      == NewHandle(pendingIds \cup Ids(st.q))
        p      == Div(video.currentTime, Num(cb.dur, 1))
    IN  [q        |-> Append(st.q, [id |-> h, dur |-> cb.dur]),
         raf      |-> IF cb.id = st.raf THEN h ELSE st.raf,
         playhead |-> IF sample THEN Max(st.playhead, p) ELSE st.playhead,
         ran      |-> st.ran + 1,
         pubs     |-> st.pubs + (IF sample THEN 1 ELSE 0),
         stale    |-> st.stale + (IF mounted /\ cb.dur # duration THEN 1 ELSE 0)]

\* a tick without the videoRef.current test: with no element mounted the
\* read of currentTime throws before the tick registers itself again
TickNoSourceGuard(cb, st, pendingIds) ==
    LET sample == cb.dur > 0
        h      == NewHandle(pendingIds \cup Ids(st.q))
    IN  IF sample /\ ~video.present
        THEN [st EXCEPT !.ran = st.ran + 1]
        ELSE [q        |-> Append(st.q, [id |-> h, dur |-> cb.dur]),
              raf      |-> IF cb.id = st.raf THEN h ELSE st.raf,
              playhead |-> IF sample
                           THEN Div(video.currentTime, Num(cb.dur, 1))
                           ELSE st.playhead,
              ran      |-> st.ran + 1,
              pubs     |-> st.pubs + (IF sample THEN 1 ELSE 0),
              stale    |-> st.stale + (IF mounted /\ cb.dur # duration
                                       THEN 1 ELSE 0)]

\* tick() of the callback cb; st carries the callbacks registered for the
\* next frame, the current effect's raf, the playhead and the counts
Tick(cb, st, pendingIds) ==
    LET sample  == video.present /\ cb.dur > 0
        h       == NewHandle(pendingIds \cup Ids(st.q))
    IN  [q        |-> Append(st.q, [id |-> h, dur |-> cb.dur]),
         raf      |-> IF cb.id = st.raf THEN h ELSE st.raf,
         playhead |-> IF sample
                      THEN Div(video.currentTime, Num(cb.dur, 1))
                      ELSE st.playhead,
         ran      |-> st.ran + 1,
         pubs     |-> st.pubs + (IF sample THEN 1 ELSE 0),
         stale    |-> st.stale + (IF mounted /\ cb.dur # duration THEN 1 ELSE 0)]

\* the browser runs the callbacks registered before the frame, in order
RECURSIVE RunCallbacks(_, _)
RunCallbacks(cbs, st) ==
    IF cbs = <<>> THEN st
    ELSE RunCallbacks(Tail(cbs), Tick(Head(cbs), st, Ids(Tail(cbs))))

Frame ==
    LET st == RunCallbacks(rafQueue,
                  [q |-> <<>>, raf |-> raf, playhead |-> playhead,
                   ran |-> 0, pubs |-> 0, stale |-> 0])
    IN  /\ rafQueue' = st.q
        /\ raf' = st.raf
        /\ playhead' = st.playhead
        /\ last' = [Did("frame") EXCEPT !.ran = st.ran, !.pubs = st.pubs,
                        !.stale = st.stale,
                        !.down = IsFinite(st.playhead) /\ IsFinite(playhead)
                                    /\ Lt(st.playhead, playhead)]
        /\ UNCHANGED <<calc, segments, duration, loading, error, serverPath,
                       inflight, video, mounted>>

\* the App's state `duration` becomes d: the Timeline re-renders
SetDuration(d) ==
    LET st == TimelineRender([q |-> rafQueue, raf |-> raf], duration, d)
    IN  /\ duration' = d
        /\ rafQueue' = st.q
        /\ raf' = st.raf

\* the App unmounts and the Timeline with it: React runs the effect's
\* cleanup, detaches videoRef (videoRef.current = null) and discards the
\* components' state
Unmount ==
    LET st == EffectCleanup([q |-> rafQueue, raf |-> raf])
    IN  /\ mounted
        /\ mounted' = FALSE
        /\ rafQueue' = st.q
        /\ raf' = st.raf
        /\ video' = NoVideo
        /\ segments' = <<>>
        /\ duration' = 0
        /\ loading' = FALSE
        /\ error' = "none"
        /\ serverPath' = TRUE
        /\ inflight' = <<>>
        /\ playhead' = Zero
        /\ last' = Did("other")
        /\ UNCHANGED calc

----------------------------------------------------------------------------
(* App: seeking *)

\* a handleSeek without the videoRef.current test: with no element the
\* assignment throws
HandleSeekNoGuard(v, t) ==
    IF v.present
    THEN [video |-> SetCurrentTime(v, t),
          writes |-> IF IsFinite(t) THEN 1 ELSE 0,
          threw |-> ~IsFinite(t)]
    ELSE [video |-> v, writes |-> 0, threw |-> TRUE]

\* a handleSeek that assigns to the ref object instead of the element
HandleSeekOnRef(v, t) == [video |-> v, writes |-> 0, threw |-> FALSE]

\* handleSeek(t): if (videoRef.current) videoRef.current.currentTime = t
\* the result is the element, the number of assignments made to its
\* current time and whether the assignment threw
HandleSeek(v, t) ==
    IF v.present
    THEN [video |-> SetCurrentTime(v, t),
          writes |-> IF IsFinite(t) THEN 1 ELSE 0,
          threw |-> ~IsFinite(t)]
    ELSE [video |-> v, writes |-> 0, threw |-> FALSE]

\* Timeline handleClick for a pointer at offset x = clientX - rect.left on
\* a track of width w: p = x / rect.width, onSeek(p * duration)
ClickTime(x, w, d) == PercentToTime(Div(Num(x, 1), Num(w, 1)), Num(d, 1))

HandleClick(x, w) ==
    LET t == ClickTime(x, w, duration)
        r == HandleSeek(video, t)
    IN  /\ mounted
        /\ video' = r.video
        /\ last' = [Did("click") EXCEPT !.x = x, !.w = w, !.seek = t,
                        !.writes = r.writes, !.threw = r.threw]
        /\ UNCHANGED <<calc, segments, duration, loading, error, serverPath,
                       inflight, mounted, playhead, rafQueue, raf>>

\* SegmentList: a click on row i calls onSeek(s.start)
RowClick(i) ==
    /\ mounted
    /\ i \in 1..Len(segments)
    /\ LET t == Num(segments[i].start, 1)
           r == HandleSeek(video, t)
       IN  /\ video' = r.video
           /\ last' = [Did("rowclick") EXCEPT !.row = i, !.seek = t,
                           !.writes = r.writes, !.threw = r.threw]
    /\ UNCHANGED <<calc, segments, duration, loading, error, serverPath,
                   inflight, mounted, playhead, rafQueue, raf>>

----------------------------------------------------------------------------
(* App: the video *)

\* handleLocalFile and the effect that sets localURL: the <video> element
\* is rendered with the file as its source
SelectFile(len) ==
    /\ mounted
    /\ video' = LoadedVideo(len)
    /\ last' = Did("other")
    /\ UNCHANGED <<calc, segments, duration, loading, error, serverPath, inflight,
                   mounted, playhead, rafQueue, raf>>

\* the element's loadedmetadata event: onLoadedMetadata(el.duration)
LoadedMetadata ==
    /\ mounted
    /\ video.present
    /\ ~video.meta
    /\ video' = [video EXCEPT !.meta = TRUE]
    /\ SetDuration(video.duration)
    /\ last' = Did("metadata")
    /\ UNCHANGED <<calc, segments, loading, error, serverPath, inflight, mounted,
                   playhead>>

\* playback advances the source's current time up to the media length
Play ==
    /\ mounted
    /\ video.present
    /\ Lt(video.currentTime, Num(video.duration, 1))
    /\ video' = [video EXCEPT !.currentTime =
                    Min(Add(video.currentTime, One), Num(video.duration, 1))]
    /\ last' = Did("other")
    /\ UNCHANGED <<calc, segments, duration, loading, error, serverPath, inflight,
                   mounted, playhead, rafQueue, raf>>

----------------------------------------------------------------------------
(* App: analysis and upload *)

EditServerPath ==
    /\ mounted
    /\ serverPath' = ~serverPath
    /\ last' = Did("other")
    /\ UNCHANGED <<calc, segments, duration, loading, error, inflight, video,
                   mounted, playhead, rafQueue, raf>>

\* the Analyze and Upload buttons: disabled={loading}
ButtonsNeverDisabled == FALSE

ButtonsDisabled == loading

\* a start that leaves segments and duration as they are
StartResetKeep(segs, d) == [segments |-> segs, duration |-> d]

\* the first statements of handleAnalyze and handleUpload:
\* setSegments([]); setDuration(0)
StartReset(segs, d) == [segments |-> <<>>, duration |-> 0]

\* seq without its i-th element
Remove(seq, i) == SubSeq(seq, 1, i - 1) \o SubSeq(seq, i + 1, Len(seq))

Update(var, val) == [var |-> var, val |-> val]

\* a handler that awaits between setSegments and setDuration
AnalyzeResponseTurnsSplit(segs, d) ==
    << << Update("segments", segs) >>,
       << Update("duration", d), Update("loading", FALSE) >> >>

\* the state updates handleAnalyze makes for a response that parses to
\* data, grouped by the synchronous turn that makes them: setSegments,
\* setDuration and (finally) setLoading(false) follow the last await
AnalyzeResponseTurns(segs, d) ==
    << << Update("segments", segs), Update("duration", d),
          Update("loading", FALSE) >> >>

\* the state updates xhr.onreadystatechange makes for a 2xx response that
\* parses to data: one turn
UploadResponseTurns(segs, d) ==
    << << Update("loading", FALSE), Update("segments", segs),
          Update("duration", d) >> >>

\* the App's state after the updates of one turn
RECURSIVE ApplyTurn(_, _)
ApplyTurn(st, turn) ==
    IF turn = <<>> THEN st
    ELSE LET u == Head(turn)
         IN  ApplyTurn([st EXCEPT ![u.var] = u.val], Tail(turn))

RECURSIVE ApplyTurns(_, _)
ApplyTurns(st, turns) ==
    IF turns = <<>> THEN st
    ELSE ApplyTurns(ApplyTurn(st, Head(turns)), Tail(turns))

HasUpdate(turns, k, var) ==
    \E j \in 1..k : \E i \in 1..Len(turns[j]) : turns[j][i].var = var

\* React renders once per turn (it batches the updates of a turn): some
\* render shows the new segments before the duration update is applied
TornRender(turns) ==
    \E k \in 1..Len(turns) :
        HasUpdate(turns, k, "segments") /\ ~HasUpdate(turns, k, "duration")

AppState == [segments |-> segments, duration |-> duration, loading |-> loading]

\* handleAnalyze up to its await; the button is disabled while loading
AnalyzeStart ==
    LET r == StartReset(segments, duration)
    IN  /\ mounted
        /\ ~ButtonsDisabled
        /\ segments' = r.segments
        /\ SetDuration(r.duration)
        /\ IF ~serverPath
           THEN /\ error' = "Please provide a server-side video path"
                /\ UNCHANGED <<loading, inflight>>
           ELSE /\ error' = "none"
                /\ loading' = TRUE
                /\ inflight' = Append(inflight, "analyze")
        /\ last' = Did("start")
        /\ UNCHANGED <<calc, serverPath, video, mounted, playhead>>

\* handleAnalyze after its await: the response is ok and parses to data
AnalyzeSuccess(i, segs, d) ==
    LET turns == AnalyzeResponseTurns(segs, d)
        fin   == ApplyTurns(AppState, turns)
    IN  /\ mounted
        /\ i \in 1..Len(inflight)
        /\ inflight[i] = "analyze"
        /\ segments' = fin.segments
        /\ SetDuration(fin.duration)
        /\ loading' = fin.loading
        /\ inflight' = Remove(inflight, i)
        /\ last' = [Did("success") EXCEPT !.resp = [segs |-> segs, d |-> d],
                                          !.torn = TornRender(turns)]
        /\ UNCHANGED <<calc, error, serverPath, video, mounted, playhead>>

\* handleAnalyze after its await: fetch rejected, !res.ok, or res.json()
\* threw: setError(String(e)) and (finally) setLoading(false)
AnalyzeFailure(i, msg) ==
    /\ mounted
    /\ i \in 1..Len(inflight)
    /\ inflight[i] = "analyze"
    /\ error' = msg
    /\ loading' = FALSE
    /\ inflight' = Remove(inflight, i)
    /\ last' = Did("failure")
    /\ UNCHANGED <<calc, segments, duration, serverPath, video, mounted,
                   playhead, rafQueue, raf>>

\* handleUpload up to xhr.send; the button is disabled while loading
UploadStart ==
    LET r == StartReset(segments, duration)
    IN  /\ mounted
        /\ ~ButtonsDisabled
        /\ segments' = r.segments
        /\ SetDuration(r.duration)
        /\ IF ~video.present
           THEN /\ error' = "No local file selected to upload"
                /\ UNCHANGED <<loading, inflight>>
           ELSE /\ error' = "none"
                /\ loading' = TRUE
                /\ inflight' = Append(inflight, "upload")
        /\ last' = Did("start")
        /\ UNCHANGED <<calc, serverPath, video, mounted, playhead>>

\* xhr.onreadystatechange at readyState 4 with a 2xx status and a body
\* that parses to data
UploadSuccess(i, segs, d) ==
    LET turns == UploadResponseTurns(segs, d)
        fin   == ApplyTurns(AppState, turns)
    IN  /\ mounted
        /\ i \in 1..Len(inflight)
        /\ inflight[i] = "upload"
        /\ segments' = fin.segments
        /\ SetDuration(fin.duration)
        /\ loading' = fin.loading
        /\ inflight' = Remove(inflight, i)
        /\ last' = [Did("success") EXCEPT !.resp = [segs |-> segs, d |-> d],
                                          !.torn = TornRender(turns)]
        /\ UNCHANGED <<calc, error, serverPath, video, mounted, playhead>>

\* xhr.onreadystatechange with a body that does not parse or a non-2xx
\* status, or xhr.onerror
UploadFailure(i, msg) ==
    /\ mounted
    /\ i \in 1..Len(inflight)
    /\ inflight[i] = "upload"
    /\ error' = msg
    /\ loading' = FALSE
    /\ inflight' = Remove(inflight, i)
    /\ last' = Did("failure")
    /\ UNCHANGED <<calc, segments, duration, serverPath, video, mounted,
                   playhead, rafQueue, raf>>

AnalyzeErrors == {"Error: Server error"}
UploadErrors  == {"Upload failed", "Network error during upload"}

----------------------------------------------------------------------------
(* The system *)

Init ==
    /\ segments = <<>>
    /\ duration = 0
    /\ loading = FALSE
    /\ error = "none"
    /\ serverPath = TRUE
    /\ inflight = <<>>
    /\ video = NoVideo
    /\ mounted = TRUE
    /\ playhead = Zero
    /\ rafQueue = << [id |-> 1, dur |-> 0] >>
    /\ raf = 1
    /\ last = Did("other")
    /\ calc = NoCalc

Next ==
    \/ Frame
    \/ Unmount
    \/ \E x \in -1..(TrackWidth + 1) : \E w \in {0, TrackWidth} : HandleClick(x, w)
    \/ \E i \in 1..Len(segments) : RowClick(i)
    \/ SelectFile(MediaLength)
    \/ LoadedMetadata
    \/ Play
    \/ EditServerPath
    \/ AnalyzeStart
    \/ \E i \in 1..Len(inflight) : \E segs \in SegmentLists :
          \E d \in 0..MaxDuration : AnalyzeSuccess(i, segs, d)
    \/ \E i \in 1..Len(inflight) : \E msg \in AnalyzeErrors :
          AnalyzeFailure(i, msg)
    \/ UploadStart
    \/ \E i \in 1..Len(inflight) : \E segs \in SegmentLists :
          \E d \in 0..MaxDuration : UploadSuccess(i, segs, d)
    \/ \E i \in 1..Len(inflight) : \E msg \in UploadErrors :
          UploadFailure(i, msg)

Spec == Init /\ [][Next]_vars

----------------------------------------------------------------------------
(* The Timeline's render functions on sampled arguments *)

\* sampled times are the halves in -1..MaxTime and those of the scenarios
MaxTime == 3

TimeSamples ==
    { Num(k, 2) : k \in -2..(2 * MaxTime) }
        \cup { Num(10, 1), Num(20, 1), Num(50, 1), Num(5005, 100) }

DurationSamples == { Num(k, 1) : k \in -1..MaxDuration } \cup { Hundred }

Modes == {"DIALOGUE_SCENE", "VISUAL_MONTAGE", "VOICEOVER_WITH_PICTURE",
          "OTHER", "undefined"}

\* each evaluation starts from the App's initial state
appVars == <<segments, duration, loading, error, serverPath, inflight, video,
             mounted, playhead, rafQueue, raf, last>>

\* pct(t) in a Timeline rendered with duration d
CalcPct(t, d) ==
    /\ calc = NoCalc
    /\ calc' = [op |-> "pct", t |-> t, d |-> d, out |-> Pct(t, d)]
    /\ UNCHANGED appVars

\* pct(t) handed back to the click handler's p * duration as p = pct / 100
CalcRoundTrip(t, d) ==
    /\ calc = NoCalc
    /\ calc' = [op |-> "roundtrip", t |-> t, d |-> d,
                out |-> PercentToTime(Div(Pct(t, d), Hundred), d)]
    /\ UNCHANGED appVars

\* the style of one rendered segment
CalcSegment(mode, start, end, d) ==
    /\ calc = NoCalc
    /\ Leq(start, end)
    /\ calc' = [op |-> "segment", mode |-> mode, start |-> start,
                end |-> end, d |-> d,
                out |-> SegmentStyle(mode, start, end, d)]
    /\ UNCHANGED appVars

\* the segments rendered for a sequence delivered by the backend
CalcRender(segs, d) ==
    /\ calc = NoCalc
    /\ calc' = [op |-> "render", segs |-> segs, d |-> d,
                out |-> RenderSegments(segs, d)]
    /\ UNCHANGED appVars

MapperNext ==
    \/ \E t \in TimeSamples : \E d \in DurationSamples : CalcPct(t, d)
    \/ \E t \in TimeSamples : \E d \in DurationSamples : CalcRoundTrip(t, d)
    \/ \E m \in Modes : \E a \in TimeSamples : \E b \in TimeSamples :
          \E d \in DurationSamples : CalcSegment(m, a, b, d)
    \/ \E segs \in SegmentLists : \E d \in 0..MaxDuration : CalcRender(segs, d)

MapperSpec == Init /\ [][MapperNext]_vars

----------------------------------------------------------------------------
(* Properties *)

DurationNum == Num(duration, 1)

\* C1: a click on the track while duration <= 0, or on a track of width 0,
\* is ignored: onSeek is not called and the source's current time is not
\* assigned
C1_DegenerateClickIgnored ==
    (last.op = "click" /\ (duration <= 0 \/ last.w = 0))
        => (last.seek = NoSeek /\ last.writes = 0)

\* C2: the playhead (the normalized position the tracker publishes) lies
\* in [0, 1] in every reachable state
C2_PlayheadInUnitInterval ==
    IsFinite(playhead) /\ Leq(Zero, playhead) /\ Leq(playhead, One)

\* C3: after a frame sampled while duration <= 0 the playhead is 0, and
\* the loop is still registered
C3_ZeroDurationReportsZero ==
    (mounted /\ last.op = "frame" /\ duration <= 0)
        => (playhead = Zero /\ Len(rafQueue) = 1)

\* C4: a click at offset x on a track of width W > 0 with duration D > 0
\* requests the time clamp(x / W, 0, 1) * D, which is within [0, D]
C4_SeekTimeClamped ==
    (last.op = "click" /\ last.w > 0 /\ duration > 0)
        => /\ last.seek =
                Mul(Clamp(Div(Num(last.x, 1), Num(last.w, 1)), Zero, One),
                    DurationNum)
           /\ Leq(Zero, last.seek)
           /\ Leq(last.seek, DurationNum)

\* C5: once the Timeline has unmounted no frame callback is registered,
\* none runs and nothing is published; while it is mounted no callback of
\* an effect instance that was cleaned up is registered
C5_CancelledOnCleanup ==
    /\ ~mounted => (rafQueue = <<>> /\ last.ran = 0 /\ last.pubs = 0)
    /\ mounted => \A i \in 1..Len(rafQueue) : rafQueue[i].id = raf

C5_Witness == ~mounted /\ last.op = "frame"

\* C6: while the Timeline is mounted exactly one frame callback is
\* registered, and every frame runs exactly one tick
C6_ExactlyOneCallback ==
    mounted => /\ Len(rafQueue) = 1
               /\ last.op = "frame" => last.ran = 1

C6_Witness ==
    /\ mounted /\ last.op = "frame" /\ last.ran = 1
    /\ duration > 0 /\ video.present /\ playhead # Zero

\* C7: after duration changed (it is 0 at mount) the registered callback
\* holds the new duration, no tick runs with an old one, and the next
\* sample publishes currentTime / duration
C7_NoStaleDuration ==
    mounted =>
        /\ \A i \in 1..Len(rafQueue) : rafQueue[i].dur = duration
        /\ last.op = "frame" =>
            /\ last.stale = 0
            /\ (video.present /\ duration > 0)
                  => playhead = Div(video.currentTime, DurationNum)

C7_Witness ==
    /\ mounted /\ last.op = "frame" /\ last.pubs = 1
    /\ duration = MaxDuration /\ video.present
    /\ Lt(Zero, video.currentTime)
    /\ playhead = Div(video.currentTime, DurationNum)

\* C8: every frame sampled with a source present and duration > 0
\* publishes the source's current time divided by duration, also when
\* that lowers the published position
C8_FaithfulMirror ==
    (mounted /\ last.op = "frame" /\ video.present /\ duration > 0)
        => /\ last.pubs = 1
           /\ Mul(playhead, DurationNum) = video.currentTime

C8_Witness ==
    /\ mounted /\ last.op = "frame" /\ last.down
    /\ video.present /\ duration > 0

\* C9: while no source is present the loop stays registered, every frame
\* runs its tick, nothing is published and the playhead is 0; the arrival
\* of a source leaves the registered callback alone, and a frame sampled
\* with the source present publishes currentTime / duration
C9_NoSourceState ==
    /\ (mounted /\ ~video.present)
          => /\ playhead = Zero
             /\ Len(rafQueue) = 1
             /\ last.op = "frame" => (last.ran = 1 /\ last.pubs = 0)
    /\ (mounted /\ video.present /\ last.op = "frame" /\ duration > 0)
          => playhead = Div(video.currentTime, DurationNum)

C9_NoSourceKeepsLooping ==
    /\ []C9_NoSourceState
    /\ [][(~video.present /\ video'.present)
             => UNCHANGED <<rafQueue, raf, playhead>>]_vars

C9_Witness ==
    /\ mounted /\ ~video.present /\ duration > 0
    /\ last.op = "frame" /\ last.ran = 1

\* C10: the source's current time is assigned only by seek requests, once
\* per click with duration > 0, a track width > 0 and a source present; a
\* frame assigns nothing and leaves the source, the segments and the
\* duration as they were
C10_WritesState ==
    /\ last.writes > 0 => last.op \in {"click", "rowclick"}
    /\ (last.op = "click" /\ duration > 0 /\ last.w > 0 /\ video.present)
          => last.writes = 1
    /\ last.op = "frame" => last.writes = 0

C10_OnlySeekWrites ==
    /\ []C10_WritesState
    /\ [][last'.op = "frame" => UNCHANGED <<video, segments, duration>>]_vars

C10_Witness ==
    /\ last.op = "click" /\ last.writes = 1 /\ duration > 0 /\ last.w > 0
    /\ video.present /\ video.currentTime = last.seek
    /\ Lt(Zero, last.seek)

\* C11: pct (timeToPercent) returns 0 for every t when duration <= 0 and
\* clamp(t / duration * 100, 0, 100) otherwise; its result is in [0, 100]
C11_PctClamped ==
    calc.op = "pct" =>
        /\ Leq(calc.d, Zero) => calc.out = Zero
        /\ Lt(Zero, calc.d) =>
              calc.out = Clamp(Mul(Div(calc.t, calc.d), Hundred), Zero, Hundred)
        /\ IsFinite(calc.out)
        /\ Leq(Zero, calc.out)
        /\ Leq(calc.out, Hundred)

C11_Witness ==
    /\ calc.op = "pct" /\ Lt(Zero, calc.d) /\ Lt(calc.d, calc.t)
    /\ calc.out = Hundred

\* C12: a rendered segment has left offset timeToPercent(start) and width
\* max(0.2, timeToPercent(end) - timeToPercent(start)): exactly 0.2 when
\* the mapped difference is below 0.2, never less; with duration 100 the
\* segment [10, 20] gets left 10 and width 10, [50, 50.05] gets width 0.2
C12_SegmentGeometry ==
    calc.op = "segment" =>
        LET diff == Sub(Pct(calc.end, calc.d), Pct(calc.start, calc.d))
        IN  /\ calc.out.left = Pct(calc.start, calc.d)
            /\ calc.out.width = Max(MinWidth, diff)
            /\ Lt(diff, MinWidth) => calc.out.width = MinWidth
            /\ Leq(MinWidth, calc.out.width)
            /\ (calc.d = Hundred /\ calc.start = Num(10, 1)
                    /\ calc.end = Num(20, 1))
                  => (calc.out.left = Num(10, 1) /\ calc.out.width = Num(10, 1))
            /\ (calc.d = Hundred /\ calc.start = Num(50, 1)
                    /\ calc.end = Num(5005, 100))
                  => calc.out.width = MinWidth

C12_Witness ==
    /\ calc.op = "segment" /\ calc.d = Hundred
    /\ calc.start = Num(50, 1) /\ calc.end = Num(5005, 100)
    /\ calc.out.left = Num(50, 1) /\ calc.out.width = MinWidth

\* C13: for duration > 0 and t in [0, duration], timeToPercent followed by
\* percentToTime (fraction * duration) returns t
C13_RoundTrip ==
    (calc.op = "roundtrip" /\ Lt(Zero, calc.d)
        /\ Leq(Zero, calc.t) /\ Leq(calc.t, calc.d))
        => calc.out = calc.t

C13_Witness ==
    /\ calc.op = "roundtrip" /\ calc.d = Hundred /\ calc.t = Num(1, 2)
    /\ calc.out = calc.t

\* C15: the three known modes map to their own colours and every other
\* mode to the neutral colour; every segment of a delivered sequence is
\* rendered, whatever its mode
KnownColor(mode) ==
    IF mode = "DIALOGUE_SCENE" THEN Indigo
    ELSE IF mode = "VISUAL_MONTAGE" THEN Red
    ELSE IF mode = "VOICEOVER_WITH_PICTURE" THEN Green
    ELSE Slate

C15_TotalColorMapping ==
    /\ calc.op = "segment" =>
          /\ calc.out.background = KnownColor(calc.mode)
          /\ calc.out.background \in {Indigo, Red, Green, Slate}
    /\ calc.op = "render" =>
          /\ Len(calc.out) = Len(calc.segs)
          /\ \A i \in 1..Len(calc.segs) :
                calc.out[i].background = KnownColor(calc.segs[i].mode)
    /\ Cardinality({Indigo, Red, Green, Slate}) = 4

C15_Witness ==
    /\ calc.op = "render"
    /\ \E i \in 1..Len(calc.segs) :
          /\ calc.segs[i].mode = "OTHER"
          /\ calc.out[i].background = Slate

\* C14: a successful analysis or upload response replaces segments and
\* duration in one render and wholesale: no render shows the Timeline the
\* response's segments without the response's duration, and afterwards
\* the segments are exactly the response's, the duration is the
\* response's and the registered tick holds it
C14_AtomicReplacement ==
    (mounted /\ last.op = "success") =>
        /\ ~last.torn
        /\ segments = last.resp.segs
        /\ duration = last.resp.d
        /\ \A i \in 1..Len(rafQueue) : rafQueue[i].dur = last.resp.d

C14_Witness ==
    /\ mounted /\ last.op = "success"
    /\ Len(segments) = 2 /\ duration > 0
    /\ video.present /\ video.meta /\ video.duration # duration

\* C16: every start of Analyze or Upload leaves segments empty and
\* duration 0, with an error set when validation fails; a failed attempt
\* sets an error and leaves segments and duration alone; while a request
\* is awaited segments are empty, and segments and duration change only
\* by a start, a metadata event or a successful response
C16_StartState ==
    /\ (mounted /\ last.op = "start")
          => /\ segments = <<>>
             /\ duration = 0
             /\ inflight = <<>> => error # "none"
    /\ (mounted /\ last.op = "failure")
          => (error # "none" /\ segments = <<>>)
    /\ (mounted /\ inflight # <<>>) => segments = <<>>

C16_ResetAndErrors ==
    /\ []C16_StartState
    /\ [][(mounted' /\ last'.op = "failure")
             => UNCHANGED <<segments, duration>>]_vars
    /\ [][(mounted' /\ (segments' # segments \/ duration' # duration))
             => last'.op \in {"start", "success", "metadata"}]_vars

C16_Witness ==
    /\ mounted /\ last.op = "failure" /\ error # "none"
    /\ video.present /\ video.meta
    /\ segments = <<>> /\ duration = 0

\* C17: at most one request is awaited at any time; loading is true
\* exactly while one is, the buttons are disabled exactly while loading
\* is true, and loading is false after every completion
C17_SingleRequest ==
    mounted =>
        /\ Len(inflight) <= 1
        /\ loading <=> (Len(inflight) = 1)
        /\ ButtonsDisabled <=> loading
        /\ last.op \in {"success", "failure"} => ~loading

C17_Witness ==
    /\ mounted /\ loading /\ ButtonsDisabled
    /\ inflight = << "upload" >> /\ last.op = "metadata"

\* C18: a seek request made while no source is mounted raises no error
\* and changes no state; with a source mounted a click on a segment row
\* assigns that segment's start to the source's current time
C18_SeekState ==
    /\ (last.op \in {"click", "rowclick"} /\ ~video.present)
          => (~last.threw /\ last.writes = 0)
    /\ (last.op = "rowclick" /\ video.present)
          => /\ last.seek = Num(segments[last.row].start, 1)
             /\ last.writes = 1
             /\ ~last.threw
             /\ video.currentTime =
                   Clamp(last.seek, Zero, Num(video.duration, 1))

C18_SeekWithoutSource ==
    /\ []C18_SeekState
    /\ [][(last'.op \in {"click", "rowclick"} /\ ~video.present)
             => UNCHANGED <<segments, duration, loading, error, serverPath,
                            inflight, video, mounted, playhead, rafQueue,
                            raf>>]_vars

C18_Witness ==
    /\ last.op = "rowclick" /\ video.present /\ last.writes = 1
    /\ last.seek = One /\ video.currentTime = One

====
